---- MODULE Spec2Model ----
(***************************************************************************)
(* The JOS kernel monitor (kern/monitor.c): the read-dispatch loop of      *)
(* monitor(), the tokenizer and command lookup of runcmd(), the three      *)
(* built-in commands, and the frame-pointer walk of mon_backtrace().       *)
(*                                                                         *)
(* Strings are sequences of one-character strings; a C string stored in    *)
(* the line buffer runs from a position up to the next NUL.  Addresses of  *)
(* the stack are counted in 32-bit words, so base_ptr + k of the C code    *)
(* (uint32_t * arithmetic) is base_ptr + k here.                           *)
(***************************************************************************)
EXTENDS Integers, Sequences, FiniteSets, TLC

(***************************************************************************)
(* Bounds of the model.                                                    *)
(***************************************************************************)
\* largest number of tokens that follow the first token of an input line
MaxExtra == 16
\* largest number of frames of a stack built by Init
MaxDepth == 2
\* number of console lines the log keeps of one command (later lines are dropped)
MaxOut == 8

(***************************************************************************)
(* Program constants.                                                      *)
(***************************************************************************)
MAXARGS == 16
NARGS == 5

NUL == "NUL"
NULL == 0
\* value of an argv slot that was never written (char *argv[MAXARGS] is a local)
Uninit == -1

\* a separator set that misses the carriage return
WHITESPACE_noCR == <<"\t", "\n", " ">>

WHITESPACE == <<"\t", "\r", "\n", " ">>

Str_help == <<"h", "e", "l", "p">>
Str_kerninfo == <<"k", "e", "r", "n", "i", "n", "f", "o">>
Str_backtrace == <<"b", "a", "c", "k", "t", "r", "a", "c", "e">>

\* a table that registers kerninfo before help
InitCommands_swapped ==
  << [name |-> Str_kerninfo, desc |-> "Display information about the kernel", func |-> "mon_kerninfo"],
     [name |-> Str_help, desc |-> "Display this list of commands", func |-> "mon_help"],
     [name |-> Str_backtrace, desc |-> "Display stack backtrace", func |-> "mon_backtrace"] >>

\* static struct Command commands[] (kept in a variable: the array is not const)
InitCommands ==
  << [name |-> Str_help, desc |-> "Display this list of commands", func |-> "mon_help"],
     [name |-> Str_kerninfo, desc |-> "Display information about the kernel", func |-> "mon_kerninfo"],
     [name |-> Str_backtrace, desc |-> "Display stack backtrace", func |-> "mon_backtrace"] >>

(***************************************************************************)
(* Memory layout.  Addresses are AddrBits wide.  The kernel stack is the   *)
(* word range StackLo..StackHi; the words StackLo..MappedHi are mapped     *)
(* (the stack and the data that follows it); a read of any other address   *)
(* faults.                                                                 *)
(***************************************************************************)
AddrBits == 5
FrameWords == 3
StackLo == 1
DataWords == 8

AddrSpace == 2 ^ AddrBits
StackHi == StackLo + MaxDepth * FrameWords + 1
MappedHi == StackHi + DataWords
WildData == StackHi + 2
WildUnmapped == AddrSpace - 1

StackAddrs == StackLo..StackHi
Mapped == StackLo..MappedHi

\* return addresses found on the stack: the first has debug information, the
\* second has none
FnAddr == 100
RetKnown == FnAddr + 16
RetUnknown == FnAddr - 1

VARIABLES pc, eof, line, buf, bufp, argc, argv, ret, hret, out, calls, commands,
          mem, ebp, base_ptr, derefs, tick, lastWalk

vars == <<pc, eof, line, buf, bufp, argc, argv, ret, hret, out, calls, commands,
          mem, ebp, base_ptr, derefs, tick, lastWalk>>

(***************************************************************************)
(* C strings.                                                              *)
(***************************************************************************)
Range(s) == {s[i] : i \in 1..Len(s)}

\* *p for a pointer p into the NUL-terminated buffer b
CharAt(b, p) == IF p > Len(b) THEN NUL ELSE b[p]

\* strchr(s, c) != NULL: the terminating NUL of s counts as part of s
strchr(s, c) == c = NUL \/ c \in Range(s)

RECURSIVE CStr(_, _)
\* the C string that starts at position p of b
CStr(b, p) == IF CharAt(b, p) = NUL THEN <<>> ELSE <<b[p]>> \o CStr(b, p + 1)

RECURSIVE StrDiff(_, _, _)
\* first index from i at which the strings s and t differ, 0 when they are equal
StrDiff(s, t, i) ==
  LET c == CharAt(s, i)
      d == CharAt(t, i)
  IN IF c # d THEN i
     ELSE IF c = NUL THEN 0
     ELSE StrDiff(s, t, i + 1)

\* a comparison of the first strlen(t) characters only
strcmp_prefix(s, t) ==
  IF StrDiff(s, t, 1) = 0 \/ StrDiff(s, t, 1) > Len(t) THEN 0 ELSE 1

\* strcmp(s, t), up to the sign of a nonzero result
strcmp(s, t) == IF StrDiff(s, t, 1) = 0 THEN 0 ELSE 1

(***************************************************************************)
(* The tokenizer of runcmd.                                                *)
(***************************************************************************)
RECURSIVE Gobble_keep(_, _)
\* a loop that skips the whitespace and leaves it in the buffer
Gobble_keep(b, p) ==
  IF CharAt(b, p) # NUL /\ strchr(WHITESPACE, CharAt(b, p))
  THEN Gobble_keep(b, p + 1)
  ELSE [buf |-> b, bufp |-> p]

RECURSIVE Gobble(_, _)
\* while (*buf && strchr(WHITESPACE, *buf)) *buf++ = 0;
Gobble(b, p) ==
  IF CharAt(b, p) # NUL /\ strchr(WHITESPACE, CharAt(b, p))
  THEN Gobble([b EXCEPT ![p] = NUL], p + 1)
  ELSE [buf |-> b, bufp |-> p]

RECURSIVE ScanArg(_, _)
\* while (*buf && !strchr(WHITESPACE, *buf)) buf++;
ScanArg(b, p) ==
  IF CharAt(b, p) # NUL /\ ~strchr(WHITESPACE, CharAt(b, p))
  THEN ScanArg(b, p + 1)
  ELSE p

\* a limit that is one token too low
ArgvFull_early(n) == n = MAXARGS - 2

\* a limit that is one token too high
ArgvFull_late(n) == n = MAXARGS

\* argc == MAXARGS-1
ArgvFull(n) == n = MAXARGS - 1

(***************************************************************************)
(* Console output.  out holds the lines printed since readline last        *)
(* printed its prompt, at most MaxOut of them.                             *)
(***************************************************************************)
cprintf(o, l) == IF Len(o) < MaxOut THEN Append(o, l) ELSE o

RECURSIVE cprintfAll(_, _)
cprintfAll(o, ls) == IF ls = <<>> THEN o ELSE cprintfAll(cprintf(o, Head(ls)), Tail(ls))

TooManyLine == [kind |-> "toomany", max |-> MAXARGS]
UnknownLine(tok) == [kind |-> "unknown", tok |-> tok]
HelpLine(c) == [kind |-> "help", name |-> c.name, desc |-> c.desc]

KerninfoLines == [i \in 1..7 |-> [kind |-> "kerninfo", n |-> i]]
FrameLine(bp, rp, args) == [kind |-> "frame", ebp |-> bp, eip |-> rp, args |-> args]
\* the frame lines among the lines o
FrameLines(o) == SelectSeq(o, LAMBDA l : l.kind = "frame")
SymbolLine(file, ln, fn, off) ==
  [kind |-> "sym", file |-> file, line |-> ln, fn |-> fn, off |-> off]

Digit(d) == <<"0", "1", "2", "3", "4", "5", "6", "7", "8", "9">>[d + 1]

RECURSIVE Natural(_)
Natural(n) == IF n < 10 THEN <<Digit(n)>> ELSE Natural(n \div 10) \o <<Digit(n % 10)>>

\* %d
Decimal(n) == IF n < 0 THEN <<"-">> \o Natural(0 - n) ELSE Natural(n)

\* the text of a symbol line: "%s:%d: %.*s+%d\n" without the newline
SymbolText(l) ==
  l.file \o <<":">> \o Decimal(l.line) \o <<":", " ">> \o l.fn \o <<"+">> \o Decimal(l.off)

(***************************************************************************)
(* The lines readline can return: the blank lines, and the lines made of   *)
(* a first token (or none), up to MaxExtra further tokens, separators that *)
(* run through the four whitespace characters, and whitespace before and   *)
(* after.                                                                  *)
(***************************************************************************)
FirstTokens ==
  { <<>>, Str_help, Str_kerninfo, Str_backtrace,
    <<"H", "e", "l", "p">>, <<"h", "e", "l">>, <<"h", "e", "l", "p", "x">> }

Sep(i) ==
  LET c == WHITESPACE[((i - 1) % Len(WHITESPACE)) + 1]
  IN IF i % 3 = 0 THEN <<c, " ">> ELSE <<c>>

Extra(i) == IF i % 2 = 1 THEN <<"a">> ELSE <<"b", "c">>

RECURSIVE Extras(_)
Extras(n) == IF n = 0 THEN <<>> ELSE Extras(n - 1) \o Sep(n) \o Extra(n)

\* whitespace before the first token and after the last one
Lead(n) == IF n % 2 = 1 THEN <<" ", "\t">> ELSE <<>>
Trail(n) == IF n % 3 = 1 THEN <<"\r", "\n">> ELSE <<>>

BlankLines == { <<>>, <<" ">>, <<"\t", "\r", "\n", " ">> }

Lines ==
  BlankLines \cup
  { Lead(n) \o first \o Extras(n) \o Trail(n) :
      first \in FirstTokens, n \in 0..MaxExtra }

(***************************************************************************)
(* The stacks Init builds.  A stack has d frames; frame k (1 = innermost,  *)
(* the frame of mon_backtrace) lies at Frame(d, k), holds the saved frame  *)
(* pointer of its caller at offset 0 and the return address at offset 1.   *)
(* The outermost frame holds `tail` as saved frame pointer: 0 on a         *)
(* well-formed stack, a frame of the chain on a cyclic one, an address     *)
(* outside the stack on a corrupted one.                                   *)
(***************************************************************************)
Frame(d, k) == StackHi - 1 - (d - k) * FrameWords

Tails(d) ==
  IF d = 0 THEN {0}
  ELSE {0, WildData, WildUnmapped} \cup {Frame(d, k) : k \in 1..d}

\* the word a location holds when it is neither a saved frame pointer nor a
\* return address
Fill(a) == AddrSpace + a

\* the return addresses of the d frames: with and without debug information
\* in turn, starting with either
RetChoices(d) ==
  { [k \in 1..d |-> IF (k + r) % 2 = 0 THEN RetKnown ELSE RetUnknown] : r \in {0, 1} }

BuildMem(d, tail, rets, dataLink) ==
  [a \in Mapped |->
     IF \E k \in 1..d : a = Frame(d, k)
       THEN LET k == CHOOSE j \in 1..d : a = Frame(d, j)
            IN IF k < d THEN Frame(d, k + 1) ELSE tail
     ELSE IF \E k \in 1..d : a = Frame(d, k) + 1
       THEN rets[CHOOSE j \in 1..d : a = Frame(d, j) + 1]
     ELSE IF a = WildData THEN dataLink
     ELSE Fill(a)]

Init ==
  /\ pc = "Reading"
  /\ eof = FALSE
  /\ line = <<>>
  /\ buf = <<>>
  /\ bufp = 1
  /\ argc = 0
  /\ argv = [i \in 0..MAXARGS - 1 |-> Uninit]
  /\ ret = 0
  /\ hret = 0
  /\ out = <<>>
  /\ calls = <<>>
  /\ commands = InitCommands
  /\ \E d \in 0..MaxDepth :
     \E tail \in Tails(d) :
       /\ \E rets \in RetChoices(d),
             dataLink \in {0, WildData, WildUnmapped} :
            /\ tail # WildData => dataLink = 0
            /\ mem = BuildMem(d, tail, rets, dataLink)
            /\ ebp = IF d = 0 THEN tail ELSE Frame(d, 1)
  /\ base_ptr = 0
  /\ derefs = {}
  /\ tick = FALSE
  /\ lastWalk = <<>>

(***************************************************************************)
(* monitor(): the read loop.                                               *)
(***************************************************************************)
\* buf = readline("K> ") returns a line; runcmd(buf, tf) starts: argc = 0,
\* argv[argc] = 0
ReadLine ==
  /\ pc = "Reading"
  /\ \E l \in Lines :
       /\ line' = l
       /\ buf' = l
  /\ eof' = FALSE
  /\ bufp' = 1
  /\ argc' = 0
  /\ argv' = [i \in 0..MAXARGS - 1 |-> IF i = 0 THEN NULL ELSE Uninit]
  /\ out' = <<>>
  /\ calls' = <<>>
  /\ pc' = "Tokenizing"
  /\ UNCHANGED <<tick, lastWalk, hret, ret, commands, mem, ebp, base_ptr, derefs>>

\* a loop that an end of input terminates
ReadEOF_exits ==
  /\ pc = "Reading"
  /\ eof' = TRUE
  /\ line' = <<>>
  /\ buf' = <<>>
  /\ out' = <<>>
  /\ calls' = <<>>
  /\ pc' = "Terminal"
  /\ UNCHANGED <<tick, lastWalk, bufp, argc, argv, ret, hret, commands, mem, ebp,
                 base_ptr, derefs>>

\* buf = readline("K> ") returns NULL: runcmd is not called
ReadEOF ==
  /\ pc = "Reading"
  /\ eof' = TRUE
  /\ line' = <<>>
  /\ buf' = <<>>
  /\ out' = <<>>
  /\ calls' = <<>>
  /\ UNCHANGED <<tick, lastWalk, pc, bufp, argc, argv, ret, hret, commands, mem, ebp,
                 base_ptr, derefs>>

\* a loop that also breaks on 0
MonitorBreaks_nonpos(r) == r <= 0

\* if (runcmd(buf, tf) < 0) break;
MonitorBreaks(r) == r < 0

MonitorLoop ==
  /\ pc = "Returned"
  /\ pc' = IF MonitorBreaks(ret) THEN "Terminal" ELSE "Reading"
  /\ UNCHANGED <<tick, lastWalk, hret, eof, line, buf, bufp, argc, argv, ret, out, calls, commands,
                 mem, ebp, base_ptr, derefs>>

(***************************************************************************)
(* runcmd(): one action per iteration of the while (1) loop.               *)
(***************************************************************************)
\* return commands[i].func(argc, argv, tf): runcmd returns what the handler
\* returned
RuncmdReturns(v) == v

\* an overflow that is reported to monitor() as a request to exit
RuncmdOverflowRet_exit == 0 - 1

\* value runcmd returns on its own (no handler called)
RuncmdOverflowRet == 0
RuncmdEmptyRet == 0
RuncmdUnknownRet == 0

\* the iteration finds the end of the line: break; argv[argc] = 0
TokBreak ==
  /\ pc = "Tokenizing"
  /\ LET g == Gobble(buf, bufp)
     IN /\ CharAt(g.buf, g.bufp) = NUL
        /\ buf' = g.buf
        /\ bufp' = g.bufp
  /\ argv' = [argv EXCEPT ![argc] = NULL]
  /\ pc' = "Lookup"
  /\ UNCHANGED <<tick, lastWalk, hret, eof, line, argc, ret, out, calls, commands, mem, ebp,
                 base_ptr, derefs>>

\* the iteration finds a further token with argc == MAXARGS-1
TokOverflow ==
  /\ pc = "Tokenizing"
  /\ LET g == Gobble(buf, bufp)
     IN /\ CharAt(g.buf, g.bufp) # NUL
        /\ ArgvFull(argc)
        /\ buf' = g.buf
        /\ bufp' = g.bufp
  /\ out' = cprintf(out, TooManyLine)
  /\ ret' = RuncmdOverflowRet
  /\ pc' = "Returned"
  /\ UNCHANGED <<tick, lastWalk, hret, eof, line, argc, argv, calls, commands, mem, ebp, base_ptr,
                 derefs>>

\* the iteration saves a token: argv[argc++] = buf, and scans past it
TokArg ==
  /\ pc = "Tokenizing"
  /\ LET g == Gobble(buf, bufp)
     IN /\ CharAt(g.buf, g.bufp) # NUL
        /\ ~ArgvFull(argc)
        /\ buf' = g.buf
        /\ argv' = [argv EXCEPT ![argc] = g.bufp]
        /\ argc' = argc + 1
        /\ bufp' = ScanArg(g.buf, g.bufp)
  /\ UNCHANGED <<tick, lastWalk, hret, pc, eof, line, ret, out, calls, commands, mem, ebp, base_ptr,
                 derefs>>

\* the token argv[i] points to
Token(b, av, i) == CStr(b, av[i])

\* for (i = 0; i < NCOMMANDS; i++) if (strcmp(argv[0], commands[i].name) == 0):
\* the set of indexes the scan can stop at
NCOMMANDS == Len(commands)
Matches(tok) == {i \in 1..NCOMMANDS : strcmp(tok, commands[i].name) = 0}
\* the index the scan stops at, 0 when it runs to the end
Lookup(tok) ==
  IF Matches(tok) = {} THEN 0
  ELSE CHOOSE i \in Matches(tok) : \A j \in Matches(tok) : i <= j

\* a call that passes the arguments without the command name
Call_skipName(f, n, b, av) ==
  [func |-> f, argc |-> n - 1, argv |-> [i \in 1..(n - 1) |-> CStr(b, av[i])],
   last |-> av[n]]

\* what a handler is called with
Call(f, n, b, av) ==
  [func |-> f, argc |-> n, argv |-> [i \in 1..n |-> Token(b, av, i - 1)],
   last |-> av[n]]

\* if (argc == 0) return 0;
RunEmpty ==
  /\ pc = "Lookup"
  /\ argc = 0
  /\ ret' = RuncmdEmptyRet
  /\ pc' = "Returned"
  /\ UNCHANGED <<tick, lastWalk, hret, eof, line, buf, bufp, argc, argv, out, calls, commands, mem,
                 ebp, base_ptr, derefs>>

\* return commands[i].func(argc, argv, tf): control enters the handler
RunInvoke ==
  /\ pc = "Lookup"
  /\ argc # 0
  /\ LET i == Lookup(Token(buf, argv, 0))
     IN /\ i # 0
        /\ calls' = Append(calls, Call(commands[i].func, argc, buf, argv))
        /\ pc' = commands[i].func
  /\ UNCHANGED <<tick, lastWalk, hret, eof, line, buf, bufp, argc, argv, ret, out, commands, mem,
                 ebp, base_ptr, derefs>>

\* cprintf("Unknown command '%s'\n", argv[0]); return 0;
RunUnknown ==
  /\ pc = "Lookup"
  /\ argc # 0
  /\ Lookup(Token(buf, argv, 0)) = 0
  /\ out' = cprintf(out, UnknownLine(Token(buf, argv, 0)))
  /\ ret' = RuncmdUnknownRet
  /\ pc' = "Returned"
  /\ UNCHANGED <<tick, lastWalk, hret, eof, line, buf, bufp, argc, argv, calls, commands, mem, ebp,
                 base_ptr, derefs>>

(***************************************************************************)
(* The built-in commands.                                                  *)
(***************************************************************************)
\* a backtrace that reports failure to its caller
HandlerRet_backtraceFails(f) == IF f = "mon_backtrace" THEN 0 - 1 ELSE 0

\* the value the handler f returns: return 0; in each of the three
HandlerRet(f) == 0

\* a listing that stops one entry early
HelpListing_short(cmds) == [i \in 1..(Len(cmds) - 1) |-> HelpLine(cmds[i])]

\* for (i = 0; i < NCOMMANDS; i++) cprintf("%s - %s\n", ...)
HelpListing(cmds) == [i \in 1..Len(cmds) |-> HelpLine(cmds[i])]

\* the loop of cprintf calls; return 0;
mon_help ==
  /\ pc = "mon_help"
  /\ out' = cprintfAll(out, HelpListing(commands))
  /\ hret' = HandlerRet("mon_help")
  /\ ret' = RuncmdReturns(hret')
  /\ pc' = "Returned"
  /\ UNCHANGED <<tick, lastWalk, eof, line, buf, bufp, argc, argv, calls, commands, mem, ebp,
                 base_ptr, derefs>>

\* seven cprintf calls; return 0;
mon_kerninfo ==
  /\ pc = "mon_kerninfo"
  /\ out' = cprintfAll(out, KerninfoLines)
  /\ hret' = HandlerRet("mon_kerninfo")
  /\ ret' = RuncmdReturns(hret')
  /\ pc' = "Returned"
  /\ UNCHANGED <<tick, lastWalk, eof, line, buf, bufp, argc, argv, calls, commands, mem, ebp,
                 base_ptr, derefs>>

\* base_ptr + k, in the width of an address
PtrAdd(p, k) == (p + k) % AddrSpace

\* the lookup of the debug information of a code address: rc = 0 and the
\* entry found, or rc < 0 and the placeholder entry
debuginfo_eip(addr) ==
  IF addr = RetKnown
  THEN [rc |-> 0, eip_file |-> <<"f", "o", "o", ".", "c">>, eip_line |-> 42,
        eip_fn_name |-> <<"b", "a", "r", ":", "F">>, eip_fn_namelen |-> 3,
        eip_fn_addr |-> FnAddr]
  ELSE [rc |-> 0 - 1, eip_file |-> <<"<", "u", "n", "k", "n", "o", "w", "n", ">">>, eip_line |-> 0,
        eip_fn_name |-> <<"<", "u", "n", "k", "n", "o", "w", "n", ">">>,
        eip_fn_namelen |-> 9, eip_fn_addr |-> addr]

\* mon_print_frame: the frame line, with the NARGS words at base_ptr + 2 ..
\* an argument window that starts one word early, at the return address
mon_print_frame_early(m, bp, rp) ==
  FrameLine(bp, rp, [i \in 1..NARGS |-> m[PtrAdd(bp, i)]])

mon_print_frame(m, bp, rp) ==
  FrameLine(bp, rp, [i \in 1..NARGS |-> m[PtrAdd(bp, 1 + i)]])

\* a symbol line that prints the whole name (%s for %.*s) and the offset of
\* the function from the return address
mon_print_symbols_plain(rp) ==
  LET info == debuginfo_eip(rp)
  IN << SymbolLine(info.eip_file, info.eip_line, info.eip_fn_name,
                   info.eip_fn_addr - rp) >>

\* mon_print_symbols: the lines it prints for the return address rp
mon_print_symbols(rp) ==
  LET info == debuginfo_eip(rp)
  IN << SymbolLine(info.eip_file, info.eip_line,
                   SubSeq(info.eip_fn_name, 1, info.eip_fn_namelen),
                   rp - info.eip_fn_addr) >>

\* mon_print_frame_descr: the lines printed for the frame at bp
mon_print_frame_descr(m, bp) ==
  LET ret_ptr == m[PtrAdd(bp, 1)]
  IN <<mon_print_frame(m, bp, ret_ptr)>> \o mon_print_symbols(ret_ptr)

\* the addresses one iteration of the walk reads through bp
FrameReads(bp) == {PtrAdd(bp, k) : k \in 0..(NARGS + 1)}

\* a walk that tests the saved frame pointer of the frame instead of the
\* frame pointer: it stops one frame early
WalkContinues_peek(m, bp) == bp # 0 /\ (bp \in Mapped => m[bp] # 0)

\* while ((int)base_ptr != 0)
WalkContinues(m, bp) == bp # 0

\* uint32_t *base_ptr = (uint32_t*) read_ebp();
BacktraceEnter ==
  /\ pc = "mon_backtrace"
  /\ base_ptr' = ebp
  /\ derefs' = {}
  /\ tick' = FALSE
  /\ pc' = "Walk"
  /\ UNCHANGED <<lastWalk, hret, eof, line, buf, bufp, argc, argv, ret, out, calls, commands,
                 mem, ebp>>

\* a walk that clears the saved frame pointer it has followed
StackAfterStep_clears(m, bp) == [m EXCEPT ![bp] = 0]

\* the memory after one iteration of the loop: the iteration stores nothing
\* through base_ptr
StackAfterStep(m, bp) == m

\* a walk that does not advance
NextFrame_stuck(m, bp) == bp

\* a walk that stops at a link that does not lead up the stack
NextFrame_upOnly(m, bp) == IF m[bp] <= bp THEN 0 ELSE m[bp]

\* the frame the walk goes to after the frame at bp: prev_base = *base_ptr
NextFrame(m, bp) == m[bp]

\* one iteration of the loop, every word it reads being mapped
WalkStep ==
  /\ pc = "Walk"
  /\ WalkContinues(mem, base_ptr)
  /\ FrameReads(base_ptr) \subseteq Mapped
  /\ out' = cprintfAll(out, mon_print_frame_descr(mem, base_ptr))
  /\ derefs' = derefs \cup {base_ptr}
  /\ base_ptr' = NextFrame(mem, base_ptr)
  /\ mem' = StackAfterStep(mem, base_ptr)
  /\ tick' = ~tick
  /\ UNCHANGED <<lastWalk, hret, pc, eof, line, buf, bufp, argc, argv, ret, calls, commands,
                 ebp>>

\* one iteration of the loop that reads a word that is not mapped: the read
\* faults and the kernel does not come back to the monitor
WalkFault ==
  /\ pc = "Walk"
  /\ WalkContinues(mem, base_ptr)
  /\ ~(FrameReads(base_ptr) \subseteq Mapped)
  /\ derefs' = derefs \cup {base_ptr}
  /\ pc' = "Fault"
  /\ UNCHANGED <<tick, lastWalk, hret, eof, line, buf, bufp, argc, argv, ret, out, calls, commands,
                 mem, ebp, base_ptr>>

\* the loop ends; return 0;
WalkDone ==
  /\ pc = "Walk"
  /\ ~WalkContinues(mem, base_ptr)
  /\ hret' = HandlerRet("mon_backtrace")
  /\ ret' = RuncmdReturns(hret')
  /\ lastWalk' = <<FrameLines(out)>>
  /\ pc' = "Returned"
  /\ UNCHANGED <<tick, eof, line, buf, bufp, argc, argv, out, calls, commands, mem,
                 ebp, base_ptr, derefs>>

Next ==
  \/ ReadLine
  \/ ReadEOF
  \/ MonitorLoop
  \/ TokBreak
  \/ TokOverflow
  \/ TokArg
  \/ RunEmpty
  \/ RunInvoke
  \/ RunUnknown
  \/ mon_help
  \/ mon_kerninfo
  \/ BacktraceEnter
  \/ WalkStep
  \/ WalkFault
  \/ WalkDone

Spec == Init /\ [][Next]_vars

\* the steps of the program itself: every action but the two of readline,
\* which wait for the console
Run ==
  \/ MonitorLoop
  \/ TokBreak
  \/ TokOverflow
  \/ TokArg
  \/ RunEmpty
  \/ RunInvoke
  \/ RunUnknown
  \/ mon_help
  \/ mon_kerninfo
  \/ BacktraceEnter
  \/ WalkStep
  \/ WalkFault
  \/ WalkDone

\* the single thread of the kernel keeps running while it is not in readline
FairSpec == Init /\ [][Next]_vars /\ WF_vars(Run)

(***************************************************************************)
(* Properties of the stack walk.                                           *)
(***************************************************************************)
RECURSIVE ChainFrom(_, _, _)
\* the frame pointers met from fp by following the saved frame pointers, up
\* to the zero sentinel, an unmapped address, or n of them
ChainFrom(m, fp, n) ==
  IF fp = 0 \/ n = 0 \/ fp \notin Mapped THEN <<>>
  ELSE <<fp>> \o ChainFrom(m, m[fp], n - 1)

Chain == ChainFrom(mem, ebp, Cardinality(Mapped) + 1)

\* the stack is well formed: the chain from the captured frame pointer stays
\* in the stack and ends in the zero sentinel
WellFormed ==
  /\ \A i \in 1..Len(Chain) : Chain[i] \in StackAddrs
  /\ Len(Chain) <= Cardinality(StackAddrs)
  /\ ebp # 0 => Chain # <<>> /\ mem[Chain[Len(Chain)]] = 0

\* a handler is running or has run on the current line, and it is f
Invoked(f) == calls # <<>> /\ calls[1].func = f

EmittedFramePointers == [i \in 1..Len(FrameLines(out)) |-> FrameLines(out)[i].ebp]

\* C1: on a well-formed stack whose chain has N frame pointers, a backtrace
\* that has returned has emitted exactly N frame lines, the i-th for the i-th
\* frame pointer of the chain (callee first), and while it runs the frames
\* emitted so far are the first ones of the chain.
C1_WalkEmitsChain ==
  (Invoked("mon_backtrace") /\ WellFormed /\ pc \in {"Walk", "Returned", "Reading"}) =>
    /\ Len(EmittedFramePointers) <= Len(Chain)
    /\ EmittedFramePointers = SubSeq(Chain, 1, Len(EmittedFramePointers))
    /\ pc \in {"Returned", "Reading"} => EmittedFramePointers = Chain

C1_Witness ==
  /\ Invoked("mon_backtrace") /\ WellFormed /\ pc = "Returned"
  /\ Len(Chain) = MaxDepth
  /\ EmittedFramePointers = Chain

\* C2: on a well-formed stack a walk that has started reaches base_ptr = 0,
\* stops, and mon_backtrace returns 0.
C2_WalkTerminates ==
  (pc = "Walk" /\ WellFormed) ~> (pc = "Returned" /\ base_ptr = 0 /\ hret = 0 /\ ret = 0)

C2_Witness ==
  /\ pc = "Returned" /\ Invoked("mon_backtrace") /\ WellFormed
  /\ base_ptr = 0 /\ ret = 0 /\ Cardinality(derefs) = MaxDepth

\* C3: the walk never reads memory through a nonzero frame pointer that lies
\* outside the stack.
C3_NoDerefOutsideStack == \A a \in derefs : a \in StackAddrs

\* C4: a symbol line is printed only for a frame whose return address
\* resolves; a frame whose return address does not resolve gets the frame
\* line alone.
C4_SymbolLineOnlyWhenResolved ==
  \A i \in 1..Len(out) :
    out[i].kind = "sym" =>
      i > 1 /\ out[i - 1].kind = "frame" /\ debuginfo_eip(out[i - 1].eip).rc = 0

(***************************************************************************)
(* Properties of runcmd and monitor.  The tokens of a line are stated here *)
(* from the line as readline returned it, not from the buffer runcmd       *)
(* works on.                                                               *)
(***************************************************************************)
IsSpace(c) == c \in {"\t", "\r", "\n", " "}

\* the positions at which a maximal run of non-whitespace characters starts
TokenStarts(l) ==
  {i \in 1..Len(l) : ~IsSpace(l[i]) /\ (i = 1 \/ IsSpace(l[i - 1]))}

\* the position at which the run that starts at i ends
TokenEnd(l, i) ==
  CHOOSE j \in i..Len(l) :
    /\ \A k \in i..j : ~IsSpace(l[k])
    /\ j = Len(l) \/ IsSpace(l[j + 1])

TokenCount(l) == Cardinality(TokenStarts(l))

\* the start of the n-th token
NthStart(l, n) ==
  CHOOSE i \in TokenStarts(l) : Cardinality({j \in TokenStarts(l) : j < i}) = n - 1

Tokens(l) == [n \in 1..TokenCount(l) |-> SubSeq(l, NthStart(l, n), TokenEnd(l, NthStart(l, n)))]

\* runcmd has run on the line readline returned last, and has returned
RanLine == ~eof /\ argv[0] # Uninit /\ pc \in {"Returned", "Reading", "Terminal"}

\* the tokens argv[0] .. argv[argc-1] point to
ArgvTokens == [i \in 1..argc |-> Token(buf, argv, i - 1)]

Blank(l) == \A i \in 1..Len(l) : IsSpace(l[i])

\* the index of the first registry entry whose name is tok, 0 if there is none
Registered(tok) ==
  IF \E i \in 1..Len(commands) : commands[i].name = tok
  THEN CHOOSE i \in 1..Len(commands) :
         /\ commands[i].name = tok
         /\ \A j \in 1..(i - 1) : commands[j].name # tok
  ELSE 0

\* C5: a line of MAXARGS (16) or more tokens never gets a handler called,
\* and once runcmd has returned on it the output is the overflow message
\* alone, the return value is 0 and monitor() goes on to read.
C5_OverflowAt16 ==
  (~eof /\ TokenCount(line) >= MAXARGS) =>
    /\ calls = <<>>
    /\ pc \in {"Tokenizing", "Returned", "Reading"}
    /\ pc \in {"Returned", "Reading"} => out = <<TooManyLine>> /\ ret = 0

C5_Witness ==
  /\ ~eof /\ pc = "Reading" /\ TokenCount(line) = MAXARGS
  /\ Tokens(line)[1] = Str_help
  /\ out = <<TooManyLine>> /\ calls = <<>>

\* C6 as stated: a line of at most MAXARGS (16) tokens is not cut off with
\* the overflow message.
C6_AcceptsUpTo16 ==
  (RanLine /\ TokenCount(line) <= MAXARGS) => TooManyLine \notin Range(out)

\* C6 as amended: the largest number of tokens accepted is MAXARGS - 1 (15).
\* The overflow message is printed exactly for the lines of more than 15
\* tokens; a line of at most 15 tokens is tokenized completely (argv holds
\* its tokens, in order) and is dispatched on its first token.
C6_AcceptsUpTo15 ==
  /\ RanLine => (TooManyLine \in Range(out) <=> TokenCount(line) > MAXARGS - 1)
  /\ (~eof /\ pc = "Lookup") =>
       /\ TokenCount(line) <= MAXARGS - 1
       /\ argc = TokenCount(line)
       /\ ArgvTokens = Tokens(line)
  /\ (~eof /\ TokenCount(line) \in 1..(MAXARGS - 1) /\ pc \notin {"Tokenizing", "Lookup"}) =>
       IF Registered(Tokens(line)[1]) = 0
       THEN UnknownLine(Tokens(line)[1]) \in Range(out)
       ELSE Invoked(commands[Registered(Tokens(line)[1])].func)

C6_Witness ==
  /\ RanLine /\ TokenCount(line) = MAXARGS - 1
  /\ Invoked("mon_help") /\ calls[1].argc = MAXARGS - 1
  /\ TooManyLine \notin Range(out)

\* C7: on an empty line and on a line of whitespace characters alone runcmd
\* finds no token, prints nothing, calls no handler and returns 0; while it
\* runs nothing changes but the line buffer, runcmd's position in it, its
\* argv and its return value.
C7_BlankLineSilent ==
  /\ []((~eof /\ Blank(line)) =>
          /\ argc = 0 /\ out = <<>> /\ calls = <<>>
          /\ pc \in {"Tokenizing", "Lookup", "Returned", "Reading"}
          /\ (pc = "Lookup") => Blank(buf) \/ Range(buf) = {NUL}
          /\ (pc \in {"Returned", "Reading"} /\ argv[0] # Uninit) => ret = 0)
  /\ [][(~eof /\ Blank(line) /\ pc # "Reading") =>
          UNCHANGED <<eof, line, argc, hret, out, calls, commands, mem, ebp,
                      base_ptr, derefs>>]_vars

C7_Witness ==
  /\ RanLine /\ pc = "Reading"
  /\ Len(line) = Len(WHITESPACE) /\ Blank(line)
  /\ Range(buf) = {NUL}
  /\ argc = 0 /\ out = <<>> /\ calls = <<>> /\ ret = 0

\* C8: on a line of 1 to 15 tokens whose first token is the name of no
\* registry entry no handler is called, and once runcmd has returned the
\* output is "Unknown command '<first token>'" alone, the return value is 0
\* and monitor() goes on to read.
C8_UnknownCommand ==
  (~eof /\ TokenCount(line) \in 1..(MAXARGS - 1) /\ Registered(Tokens(line)[1]) = 0) =>
    /\ calls = <<>>
    /\ pc \in {"Tokenizing", "Lookup", "Returned", "Reading"}
    /\ pc \in {"Returned", "Reading"} =>
         out = <<UnknownLine(Tokens(line)[1])>> /\ ret = 0

C8_Witness ==
  /\ RanLine /\ pc = "Reading" /\ TokenCount(line) = 3
  /\ Tokens(line)[1] = Str_help \o <<"x">>
  /\ out = <<UnknownLine(Str_help \o <<"x">>)>> /\ calls = <<>>

\* C9: monitor() leaves its loop only on a negative return value of a
\* handler that was called; no path of runcmd that calls no handler (overflow,
\* unknown command, empty line) and no end of input ends the loop or faults,
\* and every return of runcmd without a negative handler value is followed
\* by the next read.
C9_LoopEndsOnlyOnNegative ==
  /\ [](pc = "Terminal" => calls # <<>> /\ hret < 0 /\ ret < 0)
  /\ [](pc = "Fault" => calls # <<>>)
  /\ [][(pc = "Returned" /\ (calls = <<>> \/ hret >= 0)) => pc' = "Reading"]_vars
  /\ [][(pc = "Reading" /\ eof') => pc' = "Reading"]_vars

C9_Witness ==
  /\ RanLine /\ pc = "Reading"
  /\ TooManyLine \in Range(out) /\ calls = <<>>

\* C10: on a line of 1 to 15 tokens whose first token is the name of a
\* registry entry exactly one handler is called, that of the first entry of
\* that name, with argc = the number of tokens and argv = all the tokens
\* (the command name first) followed by a null pointer, and runcmd returns
\* the value the handler returned.
C10_DispatchFirstMatch ==
  /\ Len(calls) <= 1
  /\ (~eof /\ TokenCount(line) \in 1..(MAXARGS - 1) /\ Registered(Tokens(line)[1]) # 0
        /\ pc \notin {"Tokenizing", "Lookup"}) =>
       LET i == Registered(Tokens(line)[1])
       IN /\ calls = << [func |-> commands[i].func, argc |-> TokenCount(line),
                         argv |-> Tokens(line), last |-> NULL] >>
          /\ pc \in {commands[i].func, "Walk", "Fault", "Returned", "Reading"}
          /\ pc \in {"Returned", "Reading"} => ret = hret

C10_Witness ==
  /\ RanLine /\ pc = "Returned" /\ TokenCount(line) = 3
  /\ Invoked("mon_kerninfo") /\ calls[1].argv[1] = Str_kerninfo /\ calls[1].argc = 3
  /\ out = KerninfoLines

(***************************************************************************)
(* Properties of the commands.                                             *)
(***************************************************************************)
\* C11: the line "help" gives the single token "help"; mon_help is called
\* with it, prints one line per registry entry, for help, kerninfo and
\* backtrace in this order and no other line, and returns 0.
C11_HelpListsRegistry ==
  (~eof /\ line = Str_help) =>
    /\ pc = "Lookup" => argc = 1 /\ ArgvTokens = <<Str_help>>
    /\ pc \notin {"Tokenizing", "Lookup"} =>
         /\ calls = << [func |-> "mon_help", argc |-> 1, argv |-> <<Str_help>>,
                        last |-> NULL] >>
         /\ pc \in {"mon_help", "Returned", "Reading"}
    /\ pc \in {"Returned", "Reading"} =>
         /\ out = << [kind |-> "help", name |-> Str_help,
                      desc |-> "Display this list of commands"],
                     [kind |-> "help", name |-> Str_kerninfo,
                      desc |-> "Display information about the kernel"],
                     [kind |-> "help", name |-> Str_backtrace,
                      desc |-> "Display stack backtrace"] >>
         /\ hret = 0 /\ ret = 0

C11_Witness ==
  /\ RanLine /\ pc = "Reading" /\ line = Str_help
  /\ Len(out) = 3 /\ out[3].name = Str_backtrace

\* C12: the line printed after the frame line of a return address that
\* resolves to file F, line L, function name Fn (the first eip_fn_namelen
\* characters of the name) and function address A reads "F:L: Fn+D" with
\* D = return address - A; for the return address A + 16 of function bar at
\* foo.c:42 it reads "foo.c:42: bar+16".
C12_SymbolLineText ==
  \A i \in 1..Len(out) :
    (out[i].kind = "frame" /\ debuginfo_eip(out[i].eip).rc = 0 /\ i < Len(out)) =>
      LET info == debuginfo_eip(out[i].eip)
          l == out[i + 1]
      IN /\ l.kind = "sym"
         /\ SymbolText(l) =
              info.eip_file \o <<":">> \o Decimal(info.eip_line) \o <<":", " ">>
                \o SubSeq(info.eip_fn_name, 1, info.eip_fn_namelen)
                \o <<"+">> \o Decimal(out[i].eip - info.eip_fn_addr)
         /\ out[i].eip = FnAddr + 16 =>
              SymbolText(l) = <<"f", "o", "o", ".", "c", ":", "4", "2", ":", " ",
                                "b", "a", "r", "+", "1", "6">>

C12_Witness ==
  \E i \in 1..Len(out) :
    /\ i > 1 /\ out[i].kind = "sym" /\ out[i - 1].kind = "frame"
    /\ out[i - 1].eip = FnAddr + 16
    /\ out[i].off = 16

\* C13: the registry holds its three entries (help, kerninfo, backtrace, with
\* their descriptions and handlers, in this order) in every reachable state,
\* and no step changes it.
C13_RegistryConstant ==
  /\ [](commands =
          << [name |-> Str_help, desc |-> "Display this list of commands",
              func |-> "mon_help"],
             [name |-> Str_kerninfo, desc |-> "Display information about the kernel",
              func |-> "mon_kerninfo"],
             [name |-> Str_backtrace, desc |-> "Display stack backtrace",
              func |-> "mon_backtrace"] >>)
  /\ [][commands' = commands]_vars

C13_Witness ==
  /\ RanLine /\ pc = "Reading" /\ Invoked("mon_backtrace")
  /\ Len(commands) = 3 /\ commands[3].func = "mon_backtrace"

\* C14: the walk writes no word of the stack and does not move the captured
\* frame pointer, and a walk that completes after an earlier completed walk
\* has emitted the same sequence of frame lines as that earlier walk.
C14_WalkReadOnlyRestartable ==
  /\ [][mem' = mem /\ ebp' = ebp]_vars
  /\ []((pc = "Walk" /\ base_ptr = 0 /\ lastWalk # <<>>) =>
          FrameLines(out) = lastWalk[1])
  /\ [][(pc = "Walk" /\ pc' = "Returned" /\ lastWalk # <<>>) =>
          lastWalk' = lastWalk]_vars

C14_Witness ==
  /\ pc = "Walk" /\ base_ptr = 0
  /\ lastWalk # <<>> /\ Len(lastWalk[1]) = MaxDepth
  /\ FrameLines(out) = lastWalk[1]

\* C15: every frame line reports a nonzero frame pointer fp, the word at
\* fp + 1 as the return address and exactly the five words at fp + 2 .. fp + 6
\* in increasing order as arguments; the walk starts at the captured frame
\* pointer and goes from fp to the word at fp + 0.
C15_FrameLayout ==
  LET fl == FrameLines(out)
  IN /\ \A i \in 1..Len(fl) :
          /\ fl[i].ebp # 0
          /\ fl[i].eip = mem[PtrAdd(fl[i].ebp, 1)]
          /\ Len(fl[i].args) = 5
          /\ \A k \in 1..5 : fl[i].args[k] = mem[PtrAdd(fl[i].ebp, 1 + k)]
          /\ i = 1 => fl[i].ebp = ebp
          /\ i < Len(fl) => fl[i + 1].ebp = mem[fl[i].ebp]
     /\ (pc = "Walk" /\ fl # <<>> /\ Len(out) < MaxOut) =>
          base_ptr = mem[fl[Len(fl)].ebp]

C15_Witness ==
  LET fl == FrameLines(out)
  IN /\ pc = "Walk" /\ Len(fl) = 2
     /\ fl[1].ebp = ebp /\ fl[2].ebp = mem[ebp]
     /\ fl[2].args = <<mem[fl[2].ebp + 2], mem[fl[2].ebp + 3], mem[fl[2].ebp + 4],
                       mem[fl[2].ebp + 5], mem[fl[2].ebp + 6]>>
     /\ base_ptr = mem[fl[2].ebp]

(***************************************************************************)
(* Properties of the loop of monitor().                                    *)
(***************************************************************************)
\* the state of the loop: Reading in readline, Terminal after the break,
\* Dispatching from the call of runcmd to its return (a handler that faults
\* has not returned)
ReplState ==
  IF pc = "Reading" THEN "Reading"
  ELSE IF pc = "Terminal" THEN "Terminal"
  ELSE "Dispatching"

\* C16: the loop only goes from Reading to Dispatching, from Dispatching to
\* Reading and from Dispatching to Terminal; a line that is read is handed to
\* runcmd at once, runcmd starts only on a line just read, at most one handler
\* is invoked for a line, and an end of input invokes no handler and leaves
\* the loop in Reading.
C16_ReplTransitions ==
  /\ [][ReplState' # ReplState =>
          <<ReplState, ReplState'>> \in {<<"Reading", "Dispatching">>,
                                         <<"Dispatching", "Reading">>,
                                         <<"Dispatching", "Terminal">>}]_vars
  /\ [][(pc = "Reading" /\ ~eof') =>
          pc' = "Tokenizing" /\ buf' = line' /\ bufp' = 1 /\ calls' = <<>>]_vars
  /\ [][(pc' = "Tokenizing" /\ pc # "Tokenizing") => pc = "Reading"]_vars
  /\ [](Len(calls) <= 1)
  /\ [][calls' # calls =>
          \/ pc = "Reading" /\ calls' = <<>>
          \/ pc = "Lookup" /\ calls = <<>> /\ Len(calls') = 1]_vars
  /\ [][(pc = "Reading" /\ eof') => pc' = "Reading" /\ calls' = <<>>]_vars
  /\ []((eof /\ line = <<>>) => pc = "Reading" /\ calls = <<>>)

\* an end of input after a line whose handler returned
C16_Witness ==
  /\ pc = "Reading" /\ eof /\ calls = <<>>
  /\ argv[0] # Uninit /\ argv[1] = NULL /\ lastWalk # <<>>

\* the links from the captured frame pointer never reach the zero sentinel:
\* following them for more steps than there are mapped words finds a mapped
\* frame pointer each time, so the links run into a cycle
Cyclic ==
  Len(ChainFrom(mem, ebp, Cardinality(Mapped) + 1)) = Cardinality(Mapped) + 1

\* C17: when the links from the captured frame pointer form a cycle, the
\* walk of mon_backtrace never ends: no step leaves the walk, the handler is
\* never found returned, the walk prints a further frame again and again,
\* and it comes back to frames it has already printed.
C17_CyclicWalkNeverEnds ==
  /\ [][(pc = "Walk" /\ Cyclic) => pc' = "Walk"]_vars
  /\ []((Invoked("mon_backtrace") /\ Cyclic) =>
          pc \in {"mon_backtrace", "Walk"})
  /\ (pc = "Walk" /\ Cyclic) ~> (pc = "Walk" /\ tick /\ base_ptr \in derefs)
  /\ (pc = "Walk" /\ Cyclic) ~> (pc = "Walk" /\ ~tick /\ base_ptr \in derefs)

C17_Witness ==
  /\ pc = "Walk" /\ Cyclic
  /\ base_ptr \in derefs /\ Cardinality(derefs) > 1
  /\ Len(out) = MaxOut

(***************************************************************************)
(* Properties of the tokenizer.                                            *)
(***************************************************************************)
\* C18: when runcmd has tokenized a line it accepts, argv holds one pointer
\* per maximal run of non-whitespace characters of the line, in the order of
\* the line; each token is the run itself, so it is not empty and holds no
\* whitespace character; it ends in the buffer at a NUL, written over the
\* whitespace character that followed the run, or at the end of the line;
\* the buffer differs from the line only where whitespace became NUL.  While
\* runcmd tokenizes, the pointers saved so far are the starts of the first
\* runs.
C18_TokensAreMaximalRuns ==
  /\ (~eof /\ pc = "Tokenizing") =>
       /\ argc <= TokenCount(line)
       /\ \A n \in 1..argc : argv[n - 1] = NthStart(line, n)
  /\ (~eof /\ pc = "Lookup") =>
       /\ argc = TokenCount(line)
       /\ Len(buf) = Len(line)
       /\ \A p \in 1..Len(line) :
            buf[p] = IF IsSpace(line[p]) THEN NUL ELSE line[p]
       /\ \A n \in 1..argc :
            LET from == argv[n - 1]
                to == TokenEnd(line, from)
                tok == Token(buf, argv, n - 1)
            IN /\ from \in TokenStarts(line)
               /\ n > 1 => argv[n - 2] < from
               /\ tok = SubSeq(line, from, to)
               /\ tok # <<>>
               /\ \A k \in 1..Len(tok) : tok[k] \notin {"\t", "\r", "\n", " "}
               /\ CharAt(buf, to + 1) = NUL
               /\ from = 1 \/ IsSpace(line[from - 1])
               /\ to = Len(line) \/ IsSpace(line[to + 1])

\* three tokens or more, two of them kept apart by more than one whitespace
\* character
C18_Witness ==
  /\ ~eof /\ pc = "Lookup" /\ argc >= 3
  /\ \E p \in 2..(Len(line) - 2) :
       /\ IsSpace(line[p]) /\ IsSpace(line[p + 1]) /\ line[p] # line[p + 1]
       /\ ~IsSpace(line[p - 1]) /\ ~IsSpace(line[p + 2])
       /\ buf[p] = NUL /\ buf[p + 1] = NUL
  /\ Token(buf, argv, 1) = SubSeq(line, argv[1], TokenEnd(line, argv[1]))

\* C19: in every state of the tokenizer argc is between 0 and MAXARGS - 1 =
\* 15, so argv[argc], the slot it writes next, is one of the 16 slots of
\* argv; when the loop has ended argv[argc] is the null pointer; a handler
\* that is invoked gets argc between 1 and 15 and argv[argc] null.
C19_ArgvInBounds ==
  /\ argc \in 0..15
  /\ argc <= MAXARGS - 1
  /\ DOMAIN argv = 0..(MAXARGS - 1)
  /\ argc \in DOMAIN argv
  /\ ~eof => \A i \in 0..(argc - 1) : argv[i] \in 1..Len(buf)
  /\ (~eof /\ pc \notin {"Tokenizing", "Returned", "Reading", "Terminal"}) =>
       argv[argc] = NULL
  /\ \A i \in 1..Len(calls) :
       /\ calls[i].argc \in 1..15
       /\ calls[i].argc = argc
       /\ Len(calls[i].argv) = argc
       /\ calls[i].last = NULL

C19_Witness ==
  /\ Invoked("mon_kerninfo") /\ pc = "Reading"
  /\ calls[1].argc = 15 /\ calls[1].last = NULL
  /\ argv[15] = NULL

\* C20: every handler that returns, returns 0: help, kerninfo and backtrace
\* alike; runcmd never returns a negative value, so the loop of monitor()
\* never breaks and the Terminal state is never reached.
C20_NeverTerminal ==
  /\ [](pc # "Terminal")
  /\ [](pc = "Returned" => ret = 0)
  /\ []((pc = "Returned" /\ calls # <<>>) => hret = 0 /\ ret = hret)
  /\ [][(pc \in {"mon_help", "mon_kerninfo", "Walk"} /\ pc' # pc /\ pc' # "Fault") =>
          pc' = "Returned" /\ hret' = 0 /\ ret' = 0]_vars
  /\ [][pc = "Returned" => pc' = "Reading"]_vars

\* the loop reads again after each of the three handlers has returned
C20_Witness ==
  /\ pc = "Reading" /\ ~eof /\ ret = 0 /\ hret = 0
  /\ Invoked("mon_backtrace") /\ Len(FrameLines(out)) = MaxDepth
  /\ argc > 1

====
